---- MODULE Spec2Model ----
(***************************************************************************)
(* Accounts-payable analysis pipeline (ap_cleaning.py, ap_kpis.py,         *)
(* ap_reports.py, app.py, ap_run_all.py).                                  *)
(*                                                                         *)
(* A table is a record [cols, rows]: cols is the set of optional columns   *)
(* the table has (Status, PaidDate, AgingBucket), rows a sequence of       *)
(* records.  A cell is modelled by its characters (what astype(str),       *)
(* to_csv and the parsers see):                                            *)
(*   text cell (APID, Currency, Status): a sequence of one-character       *)
(*       strings, so that strip() and lower() are computed;                *)
(*   Vendor, AgingBucket: a string;                                        *)
(*   Amount: [whole, tail, text], the decimal digits of `whole` followed   *)
(*       by `tail` ("" | ".0" | ".5" | "x"): "100", "100.0", "100.5",      *)
(*       "0x"; text tells a text cell from a number cell;                  *)
(*   date: [day, form], form "ts" (a date cell), "iso" (ISO text) or       *)
(*       "bad" (text that is no date).                                     *)
(* A missing cell (NaN / NaT) is the NaN value of its column kind.         *)
(* Parsed numbers carry their NaN flag: [nan, v], v in halves of a unit.   *)
(***************************************************************************)
EXTENDS Integers, Sequences, FiniteSets, TLC

\* ------------------------------------------------------------------ bounds
MaxRows == 2

\* ------------------------------------------------------------------ cells
NaNText == <<"<NaN>">>
NaNStr == "<NaN>"
NaNAmount == [whole |-> 0, tail |-> "<NaN>", text |-> FALSE]
NaNDate == [day |-> 0, form |-> "<NaN>"]

USD == <<"U", "S", "D">>
EUR == <<"E", "U", "R">>
GBP == <<"G", "B", "P">>
CAD == <<"C", "A", "D">>
AUD == <<"A", "U", "D">>
JPY == <<"J", "P", "Y">>
ALLOWED_CCY == {USD, EUR, GBP, CAD, AUD, JPY}

\* pandas' isna() on a cell of each kind
IsNaText(x) == x = NaNText
IsNaStr(x) == x = NaNStr
IsNaAmount(x) == x = NaNAmount
IsNaDate(x) == x = NaNDate

\* Series.astype(str): a missing cell prints as "nan"
AsStrText(x) == IF IsNaText(x) THEN <<"n", "a", "n">> ELSE x
AsStrStr(x) == IF IsNaStr(x) THEN "nan" ELSE x
AsStrDate(x) == IF IsNaDate(x) THEN [day |-> 0, form |-> "NaT"] ELSE x

\* str.strip(): leading and trailing blanks removed
RECURSIVE StripLeft(_)
StripLeft(s) ==
    IF s = <<>> THEN <<>>
    ELSE IF Head(s) = " " THEN StripLeft(Tail(s)) ELSE s

RECURSIVE StripRight(_)
StripRight(s) ==
    IF s = <<>> THEN <<>>
    ELSE IF s[Len(s)] = " " THEN StripRight(SubSeq(s, 1, Len(s) - 1)) ELSE s

Strip(s) == StripRight(StripLeft(s))

\* str.lower(), on the letters the model's texts use
LowerChar(c) ==
    CASE c = "P" -> "p"
      [] c = "A" -> "a"
      [] c = "I" -> "i"
      [] c = "D" -> "d"
      [] c = "O" -> "o"
      [] OTHER -> c

Lower(s) == [i \in 1..Len(s) |-> LowerChar(s[i])]

\* ------------------------------------------------------------------ parsers
Num(v) == [nan |-> FALSE, v |-> v]
NaNum == [nan |-> TRUE, v |-> 0]

\* pd.to_numeric(..., errors="coerce") of one cell, in halves of a unit
ToNumeric(c) ==
    IF c.tail \in {"", ".0"} THEN Num(2 * c.whole)
    ELSE IF c.tail = ".5"
         THEN Num(IF c.whole < 0 THEN 2 * c.whole - 1 ELSE 2 * c.whole + 1)
         ELSE NaNum

\* pd.to_datetime(..., errors="coerce") of one cell: the day, or NaT
ToDatetime(c) ==
    IF c.form \in {"ts", "iso"} THEN [nat |-> FALSE, day |-> c.day]
    ELSE [nat |-> TRUE, day |-> 0]

\* a parsed (datetime64) value printed by astype(str)
DatetimeStr(p) ==
    IF p.nat THEN [day |-> 0, form |-> "NaT"] ELSE [day |-> p.day, form |-> "iso"]

\* a number of a numeric column as astype(str)/to_csv print it: float64
\* prints ".0"/".5", int64 the digits alone
NumberCell(v, isFloat) ==
    LET w == IF v >= 0 THEN v \div 2 ELSE -((-v) \div 2)
        half == v % 2 = 1
    IN  [whole |-> w,
         tail |-> IF half THEN ".5" ELSE IF isFloat THEN ".0" ELSE "",
         text |-> FALSE]

\* the dtype the Amount column has: object as soon as a text cell is in it
\* (the cells stay Python objects), else float64 if a NaN or a fraction is
AmountDtype(rows) ==
    IF \E i \in 1..Len(rows) : rows[i].Amount.text THEN "object"
    ELSE IF \E i \in 1..Len(rows) : rows[i].Amount.tail # "" THEN "float64"
    ELSE "int64"

\* Series.astype(str) of the Amount column, cell i: an object column prints
\* each cell by itself (int 100 -> "100", text "100.0" -> "100.0"), a numeric
\* column prints every number in its dtype; a missing cell prints "nan"
AsStrAmount(rows, i) ==
    LET c == rows[i].Amount
        dtype == AmountDtype(rows)
        n == NumberCell(ToNumeric(c).v, dtype = "float64")
    IN  IF IsNaAmount(c) THEN [whole |-> 0, tail |-> "nan"]
        ELSE IF dtype = "object" THEN [whole |-> c.whole, tail |-> c.tail]
        ELSE [whole |-> n.whole, tail |-> n.tail]

\* ------------------------------------------------------------------ tables
\* a file is absent, or holds a table, or (partial) was opened for writing
\* and does not hold its table yet
NoTable == [cols |-> {}, rows |-> <<>>, absent |-> TRUE, partial |-> FALSE]
Table(cols, rows) == [cols |-> cols, rows |-> rows, absent |-> FALSE, partial |-> FALSE]
PartialFile(t) == [cols |-> t.cols, rows |-> <<>>, absent |-> FALSE, partial |-> TRUE]

\* the subsequence of rows at the indices where keep[i] holds (df.loc[mask])
RECURSIVE SelectRows(_, _, _)
SelectRows(rows, keep, i) ==
    IF i > Len(rows) THEN <<>>
    ELSE (IF keep[i] THEN <<rows[i]>> ELSE <<>>) \o SelectRows(rows, keep, i + 1)

Loc(rows, keep) == SelectRows(rows, keep, 1)

\* Series.sum() of a numeric column (NaN skipped), in halves of a unit
RECURSIVE SumAmount(_)
SumAmount(rows) ==
    IF rows = <<>> THEN 0
    ELSE (LET n == ToNumeric(Head(rows).Amount) IN IF n.nan THEN 0 ELSE n.v)
         + SumAmount(Tail(rows))

\* ------------------------------------------------------------------ ap_cleaning.py
apid_missing(r) == IsNaText(r.APID) \/ Strip(AsStrText(r.APID)) = <<>>

amt_invalid(r) == LET amt_num == ToNumeric(r.Amount) IN amt_num.nan \/ amt_num.v <= 0

inv_invoice(r) == ToDatetime(r.InvoiceDate).nat

inv_due(r) == ToDatetime(r.DueDate).nat

invalid_dates(r) == inv_invoice(r) \/ inv_due(r)

\* a comparison with NaT is False
due_before_invoice(r) ==
    LET due == ToDatetime(r.DueDate)
        inv == ToDatetime(r.InvoiceDate)
    IN  ~due.nat /\ ~inv.nat /\ due.day < inv.day

ccy_invalid(r) == Strip(AsStrText(r.Currency)) \notin ALLOWED_CCY

\* the "|"-joined key, as the tuple of its four printed parts; InvoiceDate was
\* replaced by its parsed value in df_chk, Amount is the raw cell
compkey(rows, i) ==
    <<AsStrText(rows[i].APID), AsStrStr(rows[i].Vendor),
      DatetimeStr(ToDatetime(rows[i].InvoiceDate)), AsStrAmount(rows, i)>>

\* Series.duplicated(keep=False)
is_dup(rows, i) == \E j \in 1..Len(rows) : j # i /\ compkey(rows, j) = compkey(rows, i)

drop_mask(rows, i) ==
    \/ apid_missing(rows[i])
    \/ amt_invalid(rows[i])
    \/ invalid_dates(rows[i])
    \/ due_before_invoice(rows[i])
    \/ ccy_invalid(rows[i])
    \/ is_dup(rows, i)

\* pd.to_numeric(col, errors="coerce") of the rows kept from a column of the
\* given dtype: a numeric column keeps its dtype, an object column becomes
\* float64 as soon as one of its cells is a fraction, a float text or NaN
AmountToNumeric(rows, dtype) ==
    LET isFloat == IF dtype = "object"
                   THEN \E i \in 1..Len(rows) : rows[i].Amount.tail # ""
                   ELSE dtype = "float64"
    IN  [i \in 1..Len(rows) |->
            LET n == ToNumeric(rows[i].Amount)
            IN  [rows[i] EXCEPT !.Amount =
                    IF n.nan THEN NaNAmount ELSE NumberCell(n.v, isFloat)]]

\* df_clean = df_raw.loc[~drop_mask], then Amount made numeric
CleanRows(rows) ==
    AmountToNumeric(Loc(rows, [i \in 1..Len(rows) |-> ~drop_mask(rows, i)]),
                    AmountDtype(rows))

BatchClean(t) == Table(t.cols, CleanRows(t.rows))

\* rows_removed taken as the sum of the per-predicate counts
rows_removed_SumOfCounts(rows) ==
    Cardinality({i \in 1..Len(rows) : apid_missing(rows[i])})
    + Cardinality({i \in 1..Len(rows) : amt_invalid(rows[i])})
    + Cardinality({i \in 1..Len(rows) : invalid_dates(rows[i])})
    + Cardinality({i \in 1..Len(rows) : due_before_invoice(rows[i])})
    + Cardinality({i \in 1..Len(rows) : ccy_invalid(rows[i])})
    + Cardinality({i \in 1..Len(rows) : is_dup(rows, i)})

\* rows_removed = int(drop_mask.sum())
rows_removed(rows) == Cardinality({i \in 1..Len(rows) : drop_mask(rows, i)})

\* the key of the post-cleaning summary: every part is the cleaned table's own
\* cell (InvoiceDate as stored, Amount after to_numeric)
CleanedKey(rows, i) ==
    <<AsStrText(rows[i].APID), AsStrStr(rows[i].Vendor),
      AsStrDate(rows[i].InvoiceDate), AsStrAmount(rows, i)>>

\* int(mask.sum()) of a boolean column
Count(mask) == Cardinality({i \in DOMAIN mask : mask[i]})

dq_summary_raw(rows) ==
    [missing_APID |-> Count([i \in 1..Len(rows) |-> apid_missing(rows[i])]),
     amount_zero_negative_or_na |-> Count([i \in 1..Len(rows) |-> amt_invalid(rows[i])]),
     invalid_invoice_date |-> Count([i \in 1..Len(rows) |-> inv_invoice(rows[i])]),
     invalid_due_date |-> Count([i \in 1..Len(rows) |-> inv_due(rows[i])]),
     due_before_invoice |-> Count([i \in 1..Len(rows) |-> due_before_invoice(rows[i])]),
     invalid_currency |-> Count([i \in 1..Len(rows) |-> ccy_invalid(rows[i])]),
     duplicates |-> Cardinality({i \in 1..Len(rows) : is_dup(rows, i)})]

dq_summary_clean(rows) ==
    [missing_APID |-> Count([i \in 1..Len(rows) |-> apid_missing(rows[i])]),
     amount_zero_negative_or_na |->
        Count([i \in 1..Len(rows) |->
                  ~ToNumeric(rows[i].Amount).nan /\ ToNumeric(rows[i].Amount).v <= 0]),
     invalid_invoice_date |-> Count([i \in 1..Len(rows) |-> inv_invoice(rows[i])]),
     invalid_due_date |-> Count([i \in 1..Len(rows) |-> inv_due(rows[i])]),
     due_before_invoice |-> Count([i \in 1..Len(rows) |-> due_before_invoice(rows[i])]),
     invalid_currency |-> Count([i \in 1..Len(rows) |-> ccy_invalid(rows[i])]),
     duplicates |->
        Cardinality({i \in 1..Len(rows) :
            \E j \in 1..Len(rows) : j # i /\ CleanedKey(rows, j) = CleanedKey(rows, i)})]

\* ------------------------------------------------------------------ app.py: _clean
\* 6) the CompositeKey column: dates are parsed and Amount numeric by then
AppCompositeKey(rows, i) ==
    <<AsStrText(rows[i].APID), AsStrStr(rows[i].Vendor),
      AsStrDate(rows[i].InvoiceDate), AsStrAmount(rows, i)>>

\* DataFrame.drop_duplicates(subset=..., keep="first")
DropDuplicatesKeepFirst(rows) ==
    Loc(rows, [i \in 1..Len(rows) |->
        ~\E j \in 1..(i - 1) : AppCompositeKey(rows, j) = AppCompositeKey(rows, i)])

ParseDateCell(c) == IF IsNaDate(c) THEN c
                    ELSE LET p == ToDatetime(c)
                         IN  IF p.nat THEN NaNDate ELSE [day |-> p.day, form |-> "iso"]

\* _clean: the six steps filter one after the other; a row is kept by steps
\* 1 to 5 when it passes each of them in its converted form, and step 6 drops
\* the later rows of a key among the rows kept
_clean(t) ==
    LET rows == t.rows
        \* 1) APID present
        has_apid(i) == ~apid_missing(rows[i])
        \* 2) Amount = pd.to_numeric(...) over the rows step 1 left; Amount > 0
        isFloat == IF AmountDtype(rows) = "object"
                   THEN \E i \in 1..Len(rows) : has_apid(i) /\ rows[i].Amount.tail # ""
                   ELSE AmountDtype(rows) = "float64"
        amount(i) == LET n == ToNumeric(rows[i].Amount)
                     IN  IF n.nan THEN NaNAmount ELSE NumberCell(n.v, isFloat)
        positive(i) == LET n == ToNumeric(rows[i].Amount) IN ~n.nan /\ n.v > 0
        \* 3) the date columns parsed; InvoiceDate and DueDate not NaT
        dated(i) == ~inv_invoice(rows[i]) /\ ~inv_due(rows[i])
        \* 4) DueDate >= InvoiceDate
        ordered(i) == ToDatetime(rows[i].DueDate).day >= ToDatetime(rows[i].InvoiceDate).day
        \* 5) Currency stripped, and one of ALLOWED_CCY
        ccy(i) == Strip(AsStrText(rows[i].Currency))
        converted == [i \in 1..Len(rows) |->
            [rows[i] EXCEPT !.Amount = amount(i),
                            !.InvoiceDate = ParseDateCell(@),
                            !.DueDate = ParseDateCell(@),
                            !.PaidDate = IF "PaidDate" \in t.cols
                                         THEN ParseDateCell(@) ELSE @,
                            !.Currency = ccy(i)]]
        kept == [i \in 1..Len(rows) |->
            has_apid(i) /\ positive(i) /\ dated(i) /\ ordered(i)
            /\ ccy(i) \in ALLOWED_CCY]
    IN  Table(t.cols, DropDuplicatesKeepFirst(Loc(converted, kept)))

\* ------------------------------------------------------------------ features
\* pd.Timestamp.today().normalize(), as a day number
Today == 200

Labels == <<"Current", "0-30", "31-60", "61-90", ">90">>

\* pd.to_datetime over the date columns a loaded table has (_safe_to_datetime)
_safe_to_datetime(t) ==
    Table(t.cols,
          [i \in 1..Len(t.rows) |->
              [t.rows[i] EXCEPT !.InvoiceDate = ParseDateCell(@),
                                !.DueDate = ParseDateCell(@),
                                !.PaidDate = IF "PaidDate" \in t.cols
                                             THEN ParseDateCell(@) ELSE @]])

\* IsPaid: Status equals "paid" in lower case, or PaidDate is present
IsPaidOf(cols, r) ==
    \/ "Status" \in cols /\ Lower(AsStrText(r.Status)) = <<"p", "a", "i", "d">>
    \/ "PaidDate" \in cols /\ ~IsNaDate(r.PaidDate)

\* (a - b).dt.days: NaN when either date is NaT
DaysBetween(a, b) == IF IsNaDate(a) \/ IsNaDate(b) THEN NaNum ELSE Num(a.day - b.day)

dpd_today(r) == IF IsNaDate(r.DueDate) THEN NaNum ELSE Num(Today - r.DueDate.day)

fillna0(x) == IF x.nan THEN Num(0) ELSE x

\* Series.clip(lower=0) and ndarray.clip(min=0): NaN stays NaN
clip0(x) == IF x.nan THEN x ELSE IF x.v < 0 THEN Num(0) ELSE x

\* cut with the bins closed on the left: 30 falls into 31-60
cut_LeftClosed(x) ==
    IF x.nan \/ x.v < -1 THEN NaNStr
    ELSE IF x.v < 0 THEN Labels[1]
    ELSE IF x.v < 30 THEN Labels[2]
    ELSE IF x.v < 60 THEN Labels[3]
    ELSE IF x.v < 90 THEN Labels[4]
    ELSE Labels[5]

\* pd.cut(x, bins=[-1, 0, 30, 60, 90, inf], labels=Labels): right-closed bins
cut(x) ==
    IF x.nan \/ x.v <= -1 THEN NaNStr
    ELSE IF x.v <= 0 THEN Labels[1]
    ELSE IF x.v <= 30 THEN Labels[2]
    ELSE IF x.v <= 60 THEN Labels[3]
    ELSE IF x.v <= 90 THEN Labels[4]
    ELSE Labels[5]

\* DaysPastDue of ap_kpis.py and ap_reports.py (DueDate is a required column)
EnsureDaysPastDue(cols, r) ==
    LET dpd_paid == IF "PaidDate" \in cols THEN DaysBetween(r.PaidDate, r.DueDate)
                    ELSE NaNum
        picked == IF IsPaidOf(cols, r) THEN dpd_paid ELSE dpd_today(r)
    IN  clip0(fillna0(picked))

\* a featured row: the loaded row with IsPaid, DaysPastDue, AgingBucket and
\* whether AgingBucket is the categorical made by pd.cut
_ensure_features(t) ==
    [cols |-> t.cols \cup {"AgingBucket"},
     categorical |-> "AgingBucket" \notin t.cols,
     rows |-> [i \in 1..Len(t.rows) |->
        LET r == t.rows[i]
            dpd == EnsureDaysPastDue(t.cols, r)
        IN  [APID |-> r.APID, Vendor |-> r.Vendor, InvoiceDate |-> r.InvoiceDate,
             DueDate |-> r.DueDate, PaidDate |-> r.PaidDate, Amount |-> r.Amount,
             Currency |-> r.Currency, Status |-> r.Status,
             IsPaid |-> IsPaidOf(t.cols, r),
             DaysPastDue |-> dpd,
             AgingBucket |-> IF "AgingBucket" \notin t.cols THEN cut(dpd)
                             ELSE r.AgingBucket]]]

\* DaysPastDue of app.py: no fillna, and 0 for dpd_paid without a PaidDate column
ComputeDaysPastDue(cols, r) ==
    LET dpd_paid == IF "PaidDate" \in cols THEN DaysBetween(r.PaidDate, r.DueDate)
                    ELSE Num(0)
        arr == IF IsPaidOf(cols, r) THEN dpd_paid ELSE dpd_today(r)
    IN  clip0(arr)

compute_features(t) ==
    [cols |-> t.cols \cup {"AgingBucket"},
     categorical |-> TRUE,
     rows |-> [i \in 1..Len(t.rows) |->
        LET r == t.rows[i]
            dpd == ComputeDaysPastDue(t.cols, r)
        IN  [APID |-> r.APID, Vendor |-> r.Vendor, InvoiceDate |-> r.InvoiceDate,
             DueDate |-> r.DueDate, PaidDate |-> r.PaidDate, Amount |-> r.Amount,
             Currency |-> r.Currency, Status |-> r.Status,
             IsPaid |-> IsPaidOf(t.cols, r),
             DaysPastDue |-> dpd,
             AgingBucket |-> cut(dpd)]]]

NoFeatures == [cols |-> {}, categorical |-> FALSE, rows |-> <<>>]

\* ------------------------------------------------------------------ aggregation
\* df[col].sum() raises (or concatenates text) on an object column: one the
\* spreadsheet reader left with a text cell in it
HasTextAmount(t) == AmountDtype(t.rows) = "object"

OpenRows(f) == Loc(f.rows, [i \in 1..Len(f.rows) |-> ~f.rows[i].IsPaid])

PaidRows(f) == Loc(f.rows, [i \in 1..Len(f.rows) |-> f.rows[i].IsPaid])

InBucket(rows, b) == Loc(rows, [i \in 1..Len(rows) |-> rows[i].AgingBucket = b])

OfVendor(rows, v) == Loc(rows, [i \in 1..Len(rows) |-> rows[i].Vendor = v])

\* the sorted order of the AgingBucket texts when the column is no categorical
ObjectOrder == <<"0-30", "31-60", "61-90", ">90", "Current">>

\* the sorted order of the vendor names
VendorOrder == <<"V1", "V2", "V3">>

RECURSIVE SumSeq(_, _)
SumSeq(seq, field) ==
    IF seq = <<>> THEN 0 ELSE Head(seq)[field] + SumSeq(Tail(seq), field)

\* groupby("AgingBucket"): a missing bucket is in no group; a categorical
\* shows every category, an object column the values that occur
report_aging_open(f) ==
    LET open_df == OpenRows(f)
        order == IF f.categorical THEN Labels ELSE ObjectOrder
        shown == SelectSeq(order,
                    LAMBDA b : f.categorical \/ InBucket(open_df, b) # <<>>)
    IN  [k \in 1..Len(shown) |->
            [AgingBucket |-> shown[k],
             Amount |-> SumAmount(InBucket(open_df, shown[k])),
             Count |-> Len(InBucket(open_df, shown[k]))]]

\* app.py: open_df.groupby("AgingBucket")["Amount"].sum().reindex(Labels).fillna(0)
aging(f) ==
    LET open_df == OpenRows(f)
    IN  [k \in 1..Len(Labels) |->
            [AgingBucket |-> Labels[k],
             Amount |-> SumAmount(InBucket(open_df, Labels[k]))]]

\* groupby("Vendor"): a missing Vendor is in no group; groups in key order
VendorGroups(rows) ==
    LET seen == SelectSeq(VendorOrder, LAMBDA v : OfVendor(rows, v) # <<>>)
    IN  [k \in 1..Len(seen) |->
            [Vendor |-> seen[k],
             Amount |-> SumAmount(OfVendor(rows, seen[k])),
             CountInvoices |-> Len(OfVendor(rows, seen[k]))]]

\* sort_values("Amount", ascending=False)
RECURSIVE InsertDesc(_, _)
InsertDesc(g, sorted) ==
    IF sorted = <<>> THEN <<g>>
    ELSE IF g.Amount > Head(sorted).Amount THEN <<g>> \o sorted
    ELSE <<Head(sorted)>> \o InsertDesc(g, Tail(sorted))

RECURSIVE SortDesc(_)
SortDesc(groups) ==
    IF groups = <<>> THEN <<>>
    ELSE InsertDesc(groups[Len(groups)], SortDesc(SubSeq(groups, 1, Len(groups) - 1)))

head(seq, n) == SubSeq(seq, 1, IF n < Len(seq) THEN n ELSE Len(seq))

top_n == 10

report_top_vendors(f) == head(SortDesc(VendorGroups(f.rows)), top_n)

\* ------------------------------------------------------------------ ap_kpis.py: main
\* a value of the KPI record: a number num/den, NaN, None or a name
NumVal(n) == [kind |-> "num", num |-> n, den |-> 1, name |-> ""]
RatioVal(n, d) == [kind |-> "num", num |-> n, den |-> d, name |-> ""]
NaNVal == [kind |-> "nan", num |-> 0, den |-> 1, name |-> ""]
NoneVal == [kind |-> "none", num |-> 0, den |-> 1, name |-> ""]
NameVal(s) == [kind |-> "name", num |-> 0, den |-> 1, name |-> s]

\* Series.mean() of day counts, NaN skipped; NaN when nothing is left
RECURSIVE SumDays(_)
SumDays(days) ==
    IF days = <<>> THEN 0
    ELSE (IF Head(days).nan THEN 0 ELSE Head(days).v) + SumDays(Tail(days))

NotNaN(days) == SelectSeq(days, LAMBDA d : ~d.nan)

MeanDays(days) ==
    IF NotNaN(days) = <<>> THEN NaNVal
    ELSE RatioVal(SumDays(days), Len(NotNaN(days)))

\* Series.median(), NaN skipped: the middle of the sorted values
RECURSIVE SortAsc(_)
SortAsc(days) ==
    IF days = <<>> THEN <<>>
    ELSE LET m == CHOOSE i \in 1..Len(days) : \A j \in 1..Len(days) : days[i].v <= days[j].v
         IN  <<days[m]>> \o SortAsc(SubSeq(days, 1, m - 1) \o SubSeq(days, m + 1, Len(days)))

MedianDays(days) ==
    LET srt == SortAsc(NotNaN(days))
        n == Len(srt)
    IN  IF n = 0 THEN NaNVal
        ELSE IF n % 2 = 1 THEN NumVal(srt[(n + 1) \div 2].v)
        ELSE RatioVal(srt[n \div 2].v + srt[n \div 2 + 1].v, 2)

Top10 == 10

\* df.groupby("Vendor")["Amount"].sum().sort_values(ascending=False)
vendor_sum(f) == SortDesc(VendorGroups(f.rows))

kpis_of(f) ==
    LET open_df == OpenRows(f)
        overdue == Loc(open_df, [i \in 1..Len(open_df) |->
                       ~open_df[i].DaysPastDue.nan /\ open_df[i].DaysPastDue.v > 0])
        open_amount == SumAmount(open_df)
        overdue_amount == SumAmount(overdue)
        top10 == SumSeq(head(vendor_sum(f), Top10), "Amount")
        total_amt == SumSeq(vendor_sum(f), "Amount")
        paid == PaidRows(f)
        DaysToPay == [i \in 1..Len(paid) |->
                         DaysBetween(paid[i].PaidDate, paid[i].InvoiceDate)]
        DelayVsDue == [i \in 1..Len(paid) |->
                         DaysBetween(paid[i].PaidDate, paid[i].DueDate)]
        late == SelectSeq(DelayVsDue, LAMBDA d : ~d.nan /\ d.v > 0)
        horizon(r) == DaysBetween(r.DueDate, [day |-> Today, form |-> "iso"])
        due_within(n) == Loc(open_df, [i \in 1..Len(open_df) |->
                       LET h == horizon(open_df[i]) IN ~h.nan /\ 0 <= h.v /\ h.v <= n])
        base ==
            [k \in {"invoices_total", "amount_total", "open_count", "open_amount",
                    "overdue_count", "overdue_amount", "pct_overdue_amount",
                    "top10_vendor_share_pct", "top_vendor_name", "top_vendor_amount",
                    "cash_out_next_7", "cash_out_next_30"} |->
                CASE k = "invoices_total" -> NumVal(Len(f.rows))
                  [] k = "amount_total" -> NumVal(SumAmount(f.rows))
                  [] k = "open_count" -> NumVal(Len(open_df))
                  [] k = "open_amount" -> NumVal(open_amount)
                  [] k = "overdue_count" -> NumVal(Len(overdue))
                  [] k = "overdue_amount" -> NumVal(overdue_amount)
                  [] k = "pct_overdue_amount" ->
                        IF open_amount # 0 THEN RatioVal(overdue_amount * 100, open_amount)
                        ELSE NoneVal
                  [] k = "top10_vendor_share_pct" ->
                        IF total_amt # 0 THEN RatioVal(top10 * 100, total_amt)
                        ELSE NoneVal
                  [] k = "top_vendor_name" ->
                        IF Len(vendor_sum(f)) > 0 THEN NameVal(vendor_sum(f)[1].Vendor)
                        ELSE NoneVal
                  [] k = "top_vendor_amount" ->
                        IF Len(vendor_sum(f)) > 0 THEN NumVal(vendor_sum(f)[1].Amount)
                        ELSE NoneVal
                  [] k = "cash_out_next_7" -> NumVal(SumAmount(due_within(7)))
                  [] OTHER -> NumVal(SumAmount(due_within(30)))]
        to_pay ==
            IF "PaidDate" \in f.cols /\ Len(paid) > 0
            THEN [k \in {"days_to_pay_avg", "days_to_pay_median"} |->
                    IF k = "days_to_pay_avg" THEN MeanDays(DaysToPay)
                    ELSE MedianDays(DaysToPay)]
            ELSE <<>>
        delay ==
            IF "PaidDate" \in f.cols /\ Len(paid) > 0
            THEN [k \in {"delay_vs_due_avg", "delay_vs_due_pct_late"} |->
                    IF k = "delay_vs_due_avg" THEN MeanDays(DelayVsDue)
                    ELSE RatioVal(Len(late) * 100, Len(paid))]
            ELSE <<>>
    IN  base @@ to_pay @@ delay

\* ------------------------------------------------------------------ inputs
Txt_A1 == <<"A", "1">>
Txt_Open == <<"O", "p", "e", "n">>
Txt_Paid == <<"P", "a", "i", "d">>
Txt_PAID == <<"P", "A", "I", "D">>

DateCell(d) == [day |-> d, form |-> "ts"]
NumCell(w, tl) == [whole |-> w, tail |-> tl, text |-> FALSE]
TextCell(w, tl) == [whole |-> w, tail |-> tl, text |-> TRUE]

\* an open invoice of 100 USD, invoiced on day 100 and due on day 170; where
\* the spreadsheet has an AgingBucket column, it holds the bucket of the export
BaseRow ==
    [APID |-> Txt_A1, Vendor |-> "V1", InvoiceDate |-> DateCell(100),
     DueDate |-> DateCell(170), PaidDate |-> NaNDate, Amount |-> NumCell(100, ""),
     Currency |-> USD, Status |-> Txt_Open, AgingBucket |-> "0-30"]

\* the rows a spreadsheet is made of: BaseRow changed in one place, and a few
\* rows changed in two
SampleRows ==
    {BaseRow}
    \cup {[BaseRow EXCEPT !.APID = x] : x \in {<<" ">>, NaNText}}
    \cup {[BaseRow EXCEPT !.Vendor = x] : x \in {"V2", NaNStr}}
    \cup {[BaseRow EXCEPT !.InvoiceDate = x] :
            x \in {[day |-> 100, form |-> "iso"], [day |-> 0, form |-> "bad"],
                   DateCell(180)}}
    \cup {[BaseRow EXCEPT !.DueDate = x] :
            x \in {DateCell(d) : d \in {210, 200, 199, 169, 140, 139, 110, 109}}
                  \cup {NaNDate}}
    \cup {[BaseRow EXCEPT !.Amount = x] :
            x \in {TextCell(100, ".0"), NumCell(100, ".5"), NumCell(0, ""),
                   NumCell(-5, ""), TextCell(0, "x")}}
    \cup {[BaseRow EXCEPT !.Currency = x] : x \in {<<" ">> \o USD, <<"X", "X", "X">>}}
    \cup {[BaseRow EXCEPT !.Status = Txt_PAID],
          [BaseRow EXCEPT !.PaidDate = DateCell(160)],
          [BaseRow EXCEPT !.Status = Txt_Paid, !.PaidDate = DateCell(175)],
          [BaseRow EXCEPT !.AgingBucket = ">90"],
          [BaseRow EXCEPT !.AgingBucket = NaNStr],
          [BaseRow EXCEPT !.APID = <<" ">>, !.Amount = NumCell(0, "")]}

\* the optional columns a spreadsheet may have
ColSets == {{}, {"Status", "PaidDate"}, {"Status", "PaidDate", "AgingBucket"}}

\* a row of a spreadsheet with the optional columns cols: the others are not there
WithCols(r, cols) ==
    [r EXCEPT !.Status = IF "Status" \in cols THEN @ ELSE NaNText,
              !.PaidDate = IF "PaidDate" \in cols THEN @ ELSE NaNDate,
              !.AgingBucket = IF "AgingBucket" \in cols THEN @ ELSE NaNStr]

SeqsUpTo(S, n) == UNION {[1..k -> S] : k \in 0..n}

Spreadsheets(samples) ==
    {Table(cols, [i \in 1..Len(rs) |-> WithCols(rs[i], cols)]) :
        cols \in ColSets, rs \in SeqsUpTo(samples, MaxRows)}

\* ------------------------------------------------------------------ state
VARIABLES
    raw,        \* the spreadsheet in data/raw
    dest,       \* data/processed/ap_clean.csv
    tmp,        \* data/processed/ap_clean.tmp
    fallback,   \* data/processed/ap_clean_<timestamp>.csv
    locked,     \* another process holds ap_clean.csv open
    pc,         \* where ap_cleaning.py is
    save,       \* safe_save_csv: attempts begun, attempts failed, delays taken, warning
    df_clean,   \* the cleaned table of ap_cleaning.main
    summary,    \* what ap_cleaning.main prints
    kpi,        \* ap_kpis.py: its position, what it loaded, its featured table, its record
    rep,        \* ap_reports.py: the same, and its two views
    dash        \* app.py: the same, and its aging view

vars == <<raw, dest, tmp, fallback, locked, pc, save, df_clean, summary, kpi, rep, dash>>

retries == 5

NoSummary == [rows_total |-> 0, rows_removed |-> 0, rows_cleaned |-> 0,
              dq_raw |-> <<>>, dq_clean |-> <<>>]

IdleStage == [pc |-> "idle", src |-> "none", df |-> NoFeatures, kpis |-> <<>>,
              aging_open |-> <<>>, top_vendors |-> <<>>, aging |-> <<>>]

InitWith(sheets, dests, locks) ==
    /\ raw \in sheets
    /\ dest \in dests
    /\ tmp = NoTable
    /\ fallback = NoTable
    /\ locked \in locks
    /\ locked => ~dest.absent
    /\ pc = "idle"
    /\ save = [attempts |-> 0, failed |-> 0, delays |-> 0, warned |-> FALSE]
    /\ df_clean = NoTable
    /\ summary = NoSummary
    /\ kpi = IdleStage
    /\ rep = IdleStage
    /\ dash = IdleStage

Init == InitWith(Spreadsheets(SampleRows), {NoTable}, {FALSE})

\* the rows of the runs in which ap_clean.csv may be held open, and the
\* ap_clean.csv an earlier run left
PipeSampleRows ==
    {BaseRow, [BaseRow EXCEPT !.Vendor = "V2"], [BaseRow EXCEPT !.Amount = NumCell(0, "")]}

OldClean == Table({"Status", "PaidDate"}, <<[BaseRow EXCEPT !.Vendor = "V3"]>>)

PipeInit == InitWith(Spreadsheets(PipeSampleRows), {NoTable, OldClean}, BOOLEAN)

\* ------------------------------------------------------------------ ap_cleaning.py
\* main, up to the call of safe_save_csv: the checks on the raw table, the drop
\* mask, df_clean
CleaningMain ==
    /\ pc = "idle"
    /\ dash.pc = "idle"
    /\ df_clean' = BatchClean(raw)
    /\ summary' = [rows_total |-> Len(raw.rows),
                   rows_removed |-> rows_removed(raw.rows),
                   rows_cleaned |-> Len(CleanRows(raw.rows)),
                   dq_raw |-> dq_summary_raw(raw.rows),
                   dq_clean |-> <<>>]
    /\ pc' = "save_try"
    /\ UNCHANGED <<raw, dest, tmp, fallback, locked, save, kpi, rep, dash>>

\* the loop run as range(retries + 1)
SaveBeginAttempt_OneMore ==
    /\ pc = "save_try"
    /\ save.attempts <= retries
    /\ tmp' = PartialFile(df_clean)
    /\ save' = [save EXCEPT !.attempts = @ + 1]
    /\ pc' = "save_writing"
    /\ UNCHANGED <<raw, dest, fallback, locked, df_clean, summary, kpi, rep, dash>>

\* safe_save_csv, one more turn of the loop: df.to_csv(tmp) opens the temporary file
SaveBeginAttempt ==
    /\ pc = "save_try"
    /\ save.attempts < retries
    /\ tmp' = PartialFile(df_clean)
    /\ save' = [save EXCEPT !.attempts = @ + 1]
    /\ pc' = "save_writing"
    /\ UNCHANGED <<raw, dest, fallback, locked, df_clean, summary, kpi, rep, dash>>

\* df.to_csv(tmp) has written the table
SaveWriteTmp ==
    /\ pc = "save_writing"
    /\ tmp' = df_clean
    /\ pc' = "save_replace"
    /\ UNCHANGED <<raw, dest, fallback, locked, save, df_clean, summary, kpi, rep, dash>>

\* os.replace(tmp, out_path), then return
SaveReplace ==
    /\ pc = "save_replace"
    /\ ~locked
    /\ dest' = tmp
    /\ tmp' = NoTable
    /\ pc' = "saved"
    /\ UNCHANGED <<raw, fallback, locked, save, df_clean, summary, kpi, rep, dash>>

\* os.replace raises PermissionError: the temporary file is unlinked
SaveLocked ==
    /\ pc = "save_replace"
    /\ locked
    /\ tmp' = NoTable
    /\ save' = [save EXCEPT !.failed = @ + 1]
    /\ pc' = "save_sleep"
    /\ UNCHANGED <<raw, dest, fallback, locked, df_clean, summary, kpi, rep, dash>>

\* time.sleep(sleep_s), then the next turn of the loop
SaveSleep ==
    /\ pc = "save_sleep"
    /\ save' = [save EXCEPT !.delays = @ + 1]
    /\ pc' = "save_try"
    /\ UNCHANGED <<raw, dest, tmp, fallback, locked, df_clean, summary, kpi, rep, dash>>

\* the loop is over: df.to_csv(fallback) opens the fallback file
SaveFallback ==
    /\ pc = "save_try"
    /\ save.attempts >= retries
    /\ fallback' = PartialFile(df_clean)
    /\ pc' = "save_fallback"
    /\ UNCHANGED <<raw, dest, tmp, locked, save, df_clean, summary, kpi, rep, dash>>

\* df.to_csv(fallback) has written the table; the warning is printed
SaveFallbackDone ==
    /\ pc = "save_fallback"
    /\ fallback' = df_clean
    /\ save' = [save EXCEPT !.warned = TRUE]
    /\ pc' = "saved"
    /\ UNCHANGED <<raw, dest, tmp, locked, df_clean, summary, kpi, rep, dash>>

\* main after safe_save_csv: the summary of the cleaned table
CleaningSummary ==
    /\ pc = "saved"
    /\ summary' = [summary EXCEPT !.dq_clean = dq_summary_clean(df_clean.rows)]
    /\ pc' = "cleaned"
    /\ UNCHANGED <<raw, dest, tmp, fallback, locked, save, df_clean, kpi, rep, dash>>

\* another program opens or closes ap_clean.csv
ViewerOpens ==
    /\ ~locked
    /\ ~dest.absent
    /\ locked' = TRUE
    /\ UNCHANGED <<raw, dest, tmp, fallback, pc, save, df_clean, summary, kpi, rep, dash>>

ViewerCloses ==
    /\ locked
    /\ locked' = FALSE
    /\ UNCHANGED <<raw, dest, tmp, fallback, pc, save, df_clean, summary, kpi, rep, dash>>

\* ------------------------------------------------------------------ readers
\* load_clean_or_raw of ap_kpis.py and ap_reports.py: ap_clean.csv if it exists
load_clean_or_raw == IF ~dest.absent THEN dest ELSE raw

LoadedFrom == IF ~dest.absent THEN "clean" ELSE "raw"

\* ap_kpis.main, the step of ap_run_all after ap_cleaning.py
KpisMain ==
    /\ pc = "cleaned"
    /\ kpi.pc = "idle"
    /\ kpi' = IF HasTextAmount(load_clean_or_raw)
              THEN [IdleStage EXCEPT !.pc = "error", !.src = LoadedFrom]
              ELSE LET df == _ensure_features(_safe_to_datetime(load_clean_or_raw))
                   IN  [IdleStage EXCEPT !.pc = "done", !.src = LoadedFrom,
                                         !.df = df, !.kpis = kpis_of(df)]
    /\ UNCHANGED <<raw, dest, tmp, fallback, locked, pc, save, df_clean, summary, rep, dash>>

\* ap_reports.main, the step of ap_run_all after ap_kpis.py
ReportsMain ==
    /\ kpi.pc = "done"
    /\ rep.pc = "idle"
    /\ rep' = IF HasTextAmount(load_clean_or_raw)
              THEN [IdleStage EXCEPT !.pc = "error", !.src = LoadedFrom]
              ELSE LET df == _ensure_features(_safe_to_datetime(load_clean_or_raw))
                   IN  [IdleStage EXCEPT !.pc = "done", !.src = LoadedFrom,
                                         !.df = df,
                                         !.aging_open = report_aging_open(df),
                                         !.top_vendors = report_top_vendors(df)]
    /\ UNCHANGED <<raw, dest, tmp, fallback, locked, pc, save, df_clean, summary, kpi, dash>>

\* ------------------------------------------------------------------ app.py
\* the dashboard is opened before the pipeline runs or after it has run
DashMayRun == dash.pc = "idle" /\ (pc = "idle" \/ rep.pc = "done")

\* load_data reads ap_clean.csv (parse_dates names PaidDate: read_csv raises
\* without that column), then compute_features and the views
DashFromProcessed ==
    /\ DashMayRun
    /\ ~dest.absent
    /\ dash' = IF "PaidDate" \notin dest.cols
               THEN [IdleStage EXCEPT !.pc = "error", !.src = "processed"]
               ELSE LET df == compute_features(_safe_to_datetime(dest))
                    IN  [IdleStage EXCEPT !.pc = "viewed", !.src = "processed",
                                          !.df = df, !.aging = aging(df)]
    /\ UNCHANGED <<raw, dest, tmp, fallback, locked, pc, save, df_clean, summary, kpi, rep>>

\* load_data without ap_clean.csv: the raw table is cleaned and
\* df.to_csv(clean_csv) opens the destination itself
DashFromRawBegin ==
    /\ DashMayRun
    /\ dest.absent
    /\ dest' = PartialFile(_clean(raw))
    /\ dash' = [IdleStage EXCEPT !.pc = "writing", !.src = "raw"]
    /\ UNCHANGED <<raw, tmp, fallback, locked, pc, save, df_clean, summary, kpi, rep>>

\* df.to_csv(clean_csv) has written the table; compute_features and the views
DashFromRawEnd ==
    /\ dash.pc = "writing"
    /\ dest' = _clean(raw)
    /\ dash' = LET df == compute_features(_clean(raw))
               IN  [IdleStage EXCEPT !.pc = "viewed", !.src = "raw",
                                     !.df = df, !.aging = aging(df)]
    /\ UNCHANGED <<raw, tmp, fallback, locked, pc, save, df_clean, summary, kpi, rep>>

\* ------------------------------------------------------------------ specifications
\* a run of the pipeline and of the dashboard with ap_clean.csv never held open
Next ==
    \/ CleaningMain
    \/ SaveBeginAttempt
    \/ SaveWriteTmp
    \/ SaveReplace
    \/ CleaningSummary
    \/ KpisMain
    \/ ReportsMain
    \/ DashFromProcessed
    \/ DashFromRawBegin
    \/ DashFromRawEnd

Spec == Init /\ [][Next]_vars

\* the same programs while another program may hold ap_clean.csv open
PipeNext ==
    \/ Next
    \/ SaveLocked
    \/ SaveSleep
    \/ SaveFallback
    \/ SaveFallbackDone
    \/ ViewerOpens
    \/ ViewerCloses

PipeSpec == PipeInit /\ [][PipeNext]_vars

\* a running ap_cleaning.py goes on to its next statement
SaveStep ==
    \/ SaveBeginAttempt
    \/ SaveWriteTmp
    \/ SaveReplace
    \/ SaveLocked
    \/ SaveSleep
    \/ SaveFallback
    \/ SaveFallbackDone

FairPipeSpec == PipeInit /\ [][PipeNext]_vars /\ WF_vars(SaveStep)

\* ------------------------------------------------------------------ claims
Cleaned == pc # "idle"

RowIsClean(rows, i) ==
    LET r == rows[i]
        amount == ToNumeric(r.Amount)
        invoice == ToDatetime(r.InvoiceDate)
        due == ToDatetime(r.DueDate)
    IN  /\ ~IsNaText(r.APID) /\ Strip(r.APID) # <<>>
        /\ ~amount.nan /\ amount.v > 0
        /\ ~invoice.nat /\ ~due.nat
        /\ due.day >= invoice.day
        /\ Strip(r.Currency) \in ALLOWED_CCY

\* C1: the table ap_cleaning.main keeps has no row with a blank or missing APID,
\* a non-numeric or non-positive Amount, an unparseable InvoiceDate or DueDate,
\* DueDate before InvoiceDate or a Currency outside the allowed set, and no two
\* of its rows share the composite key recomputed on the cleaned table.
C1_CleanedTableHasNoDefect ==
    Cleaned =>
        /\ \A i \in 1..Len(df_clean.rows) : RowIsClean(df_clean.rows, i)
        /\ \A i, j \in 1..Len(df_clean.rows) :
              i # j => CleanedKey(df_clean.rows, i) # CleanedKey(df_clean.rows, j)

\* the part of C1 about single rows, which the code keeps
C1_RowsAreValid ==
    Cleaned => \A i \in 1..Len(df_clean.rows) : RowIsClean(df_clean.rows, i)

\* two rows of a spreadsheet whose APID, Vendor, InvoiceDate and Amount cells
\* are the same cells
SameKeyCells(r1, r2) ==
    /\ r1.APID = r2.APID
    /\ r1.Vendor = r2.Vendor
    /\ r1.InvoiceDate = r2.InvoiceDate
    /\ r1.Amount = r2.Amount

\* the rows of the spreadsheet that share their key cells with no other row
AloneInGroup(rows) ==
    {i \in 1..Len(rows) : \A j \in 1..Len(rows) : j # i => ~SameKeyCells(rows[i], rows[j])}

DashCleanedRaw == dash.pc = "viewed" /\ dash.src = "raw"

\* C2: every row of a group of two or more rows that share the composite key is
\* dropped, by ap_cleaning.main and by app._clean: only rows alone in their
\* group are kept.
C2_WholeDuplicateGroupDropped ==
    /\ Cleaned => Len(df_clean.rows) <= Cardinality(AloneInGroup(raw.rows))
    /\ DashCleanedRaw => Len(dest.rows) <= Cardinality(AloneInGroup(raw.rows))

\* the part of C2 about ap_cleaning.main, which the code keeps
C2_BatchDropsWholeGroup ==
    Cleaned => Len(df_clean.rows) <= Cardinality(AloneInGroup(raw.rows))

\* C3: cleaning the cleaned table again drops no row: clean(clean(T)) = clean(T).
C3_CleaningIsIdempotent ==
    Cleaned => CleanRows(df_clean.rows) = df_clean.rows

\* C4: ap_clean.csv never holds a table that is only partly written: it changes
\* by the replace of a completely written temporary file alone.
C4_DestinationNeverPartial == ~dest.partial

C4_DestinationOnlyReplaced ==
    [][dest' # dest => (~tmp.absent /\ ~tmp.partial /\ dest' = tmp)]_vars

\* C5: safe_save_csv makes at most `retries` attempts, takes one delay after
\* each attempt that failed on the lock, and always returns: with the table at
\* the destination, or, after `retries` failures, with the table at the
\* fallback path and the warning printed.
C5_SaveRetriesThenFallsBack ==
    /\ [](save.attempts <= retries)
    /\ [](save.delays = IF pc = "save_sleep" THEN save.failed - 1 ELSE save.failed)
    /\ [](pc = "saved" =>
            \/ save.failed < retries /\ dest = df_clean /\ ~save.warned
            \/ save.failed = retries /\ fallback = df_clean /\ save.warned)
    /\ (pc = "save_try" ~> pc = "saved")

C5_FellBack ==
    /\ pc = "saved"
    /\ save.attempts = retries
    /\ save.delays = retries
    /\ save.warned
    /\ fallback = df_clean
    /\ dest # df_clean

FeaturedTables == {kpi.df, rep.df, dash.df}

\* C6: DaysPastDue is a number >= 0 in every row of every featured table
\* (ap_kpis, ap_reports, app), never negative and never null.
C6_DaysPastDueNonNegative ==
    \A f \in FeaturedTables : \A i \in 1..Len(f.rows) :
        ~f.rows[i].DaysPastDue.nan /\ f.rows[i].DaysPastDue.v >= 0

\* the part of C6 about ap_kpis and ap_reports, which the code keeps
C6_BatchDaysPastDueNonNegative ==
    \A f \in {kpi.df, rep.df} : \A i \in 1..Len(f.rows) :
        ~f.rows[i].DaysPastDue.nan /\ f.rows[i].DaysPastDue.v >= 0

\* the bucket the claim gives a number of days past due
ClaimBucket(d) ==
    IF d = 0 THEN "Current"
    ELSE IF d \in 1..30 THEN "0-30"
    ELSE IF d \in 31..60 THEN "31-60"
    ELSE IF d \in 61..90 THEN "61-90"
    ELSE ">90"

BucketFollows(f) ==
    \A i \in 1..Len(f.rows) :
        ~f.rows[i].DaysPastDue.nan =>
            f.rows[i].AgingBucket = ClaimBucket(f.rows[i].DaysPastDue.v)

\* C7 as claimed: in every featured table the AgingBucket of a row is the
\* bucket of its DaysPastDue.
C7_BucketFollowsDaysPastDue == \A f \in FeaturedTables : BucketFollows(f)

\* C7 as amended: the AgingBucket of a row is the bucket of its DaysPastDue in
\* every featured table of the dashboard, and in those of ap_kpis and
\* ap_reports whose loaded table had no AgingBucket column; a loaded
\* AgingBucket column is kept as it was.
C7_ComputedBucketFollowsDaysPastDue ==
    /\ \A f \in FeaturedTables : f.categorical => BucketFollows(f)
    /\ dash.df.rows # <<>> => dash.df.categorical
    /\ \A st \in {kpi, rep} :
          st.pc = "done" =>
            /\ st.df.categorical = ("AgingBucket" \notin dest.cols)
            /\ ~st.df.categorical =>
                 \A i \in 1..Len(st.df.rows) :
                    st.df.rows[i].AgingBucket = dest.rows[i].AgingBucket

C7_BucketsAtTheBounds ==
    /\ kpi.pc = "done"
    /\ kpi.df.categorical
    /\ \E i, j \in 1..Len(kpi.df.rows) :
          /\ kpi.df.rows[i].DaysPastDue = Num(30) /\ kpi.df.rows[i].AgingBucket = "0-30"
          /\ kpi.df.rows[j].DaysPastDue = Num(91) /\ kpi.df.rows[j].AgingBucket = ">90"

\* C8: the per-vendor amounts of the top-vendors view, and of vendor_sum in the
\* KPIs, add up to the total Amount of the table.
C8_VendorSumsAddUp ==
    /\ rep.pc = "done" => SumSeq(rep.top_vendors, "Amount") = SumAmount(rep.df.rows)
    /\ kpi.pc = "done" =>
          SumSeq(vendor_sum(kpi.df), "Amount") = kpi.kpis["amount_total"].num

\* C9: the amounts of the aging-by-bucket view add up to the total Amount of the
\* open invoices, and its counts to their number.
C9_AgingSumsAddUp ==
    /\ rep.pc = "done" =>
          /\ SumSeq(rep.aging_open, "Amount") = SumAmount(OpenRows(rep.df))
          /\ SumSeq(rep.aging_open, "Count") = Len(OpenRows(rep.df))
    /\ dash.pc = "viewed" => SumSeq(dash.aging, "Amount") = SumAmount(OpenRows(dash.df))

\* the part of C9 about the dashboard, which the code keeps
C9_DashAgingSumsAddUp ==
    dash.pc = "viewed" => SumSeq(dash.aging, "Amount") = SumAmount(OpenRows(dash.df))

IsNull(record, k) == k \in DOMAIN record /\ record[k].kind \in {"none", "nan"}

PaidKeys == {"days_to_pay_avg", "days_to_pay_median", "delay_vs_due_avg",
             "delay_vs_due_pct_late"}

\* C10: the KPI record reports as null every ratio without a base:
\* pct_overdue_amount when the open amount is 0, top10_vendor_share_pct when
\* the vendor spend is 0, and the four paid-invoice figures when no invoice
\* is paid.
C10_EmptyRatiosAreNull ==
    kpi.pc = "done" =>
        /\ kpi.kpis["open_amount"].num = 0 => IsNull(kpi.kpis, "pct_overdue_amount")
        /\ SumSeq(vendor_sum(kpi.df), "Amount") = 0 =>
              IsNull(kpi.kpis, "top10_vendor_share_pct")
        /\ PaidRows(kpi.df) = <<>> => \A k \in PaidKeys : IsNull(kpi.kpis, k)

\* the part of C10 about the two ratios, which the code keeps
C10_ZeroDenominatorsAreNull ==
    kpi.pc = "done" =>
        /\ kpi.kpis["open_amount"].num = 0 => IsNull(kpi.kpis, "pct_overdue_amount")
        /\ SumSeq(vendor_sum(kpi.df), "Amount") = 0 =>
              IsNull(kpi.kpis, "top10_vendor_share_pct")

\* one of the six predicates holds for row i of the raw table
HasDefect(rows, i) ==
    \/ apid_missing(rows[i])
    \/ amt_invalid(rows[i])
    \/ inv_invoice(rows[i]) \/ inv_due(rows[i])
    \/ due_before_invoice(rows[i])
    \/ ccy_invalid(rows[i])
    \/ is_dup(rows, i)

\* C11: the batch cleaner keeps a row if and only if none of the six
\* predicates holds for it, in the order of the raw table; a row with several
\* defects counts once in rows_removed, and
\* rows_removed + rows_cleaned = rows_total.
C11_KeptIffNoPredicate ==
    Cleaned =>
        LET rows == raw.rows
            sound == [i \in 1..Len(rows) |-> ~HasDefect(rows, i)]
        IN  /\ df_clean.rows = AmountToNumeric(Loc(rows, sound), AmountDtype(rows))
            /\ summary.rows_total = Len(rows)
            /\ summary.rows_cleaned = Len(df_clean.rows)
            /\ summary.rows_removed = Cardinality({i \in 1..Len(rows) : HasDefect(rows, i)})
            /\ summary.rows_removed + summary.rows_cleaned = summary.rows_total

\* a row with two defects beside a sound row of Amount 100.5: the
\* per-predicate counts add up to more than the one row removed
C11_OverlappingDefects ==
    /\ Cleaned
    /\ Len(raw.rows) = 2
    /\ apid_missing(raw.rows[1]) /\ amt_invalid(raw.rows[1])
    /\ raw.rows[2].Amount = NumCell(100, ".5")
    /\ Len(df_clean.rows) = 1
    /\ ToNumeric(df_clean.rows[1].Amount) = Num(201)
    /\ summary.rows_removed = 1
    /\ summary.dq_raw.missing_APID + summary.dq_raw.amount_zero_negative_or_na = 2

\* the featured table a stage computes from the table cleaned in this run
FromThisRun == _ensure_features(_safe_to_datetime(df_clean))

\* C12: in a run of the pipeline whose cleaning stage finished, the KPI and
\* report stages compute from the table cleaned in that run, never from an
\* older ap_clean.csv nor from the raw spreadsheet, also when the cleaned
\* table was saved at the fallback path.
C12_StagesReadThisRunsTable ==
    \A st \in {kpi, rep} :
        st.pc \in {"done", "error"} => st.src = "clean" /\ st.df = FromThisRun

\* the part of C12 the code keeps: the runs whose save replaced ap_clean.csv
C12_ReplacedRunReadsThisRunsTable ==
    \A st \in {kpi, rep} :
        (st.pc \in {"done", "error"} /\ ~save.warned) =>
            st.src = "clean" /\ st.df = FromThisRun

====
